---- MODULE Spec2Model ----
(***************************************************************************)
(* A model of fbchart.py: load_data, draw_grid, plot_circles and main.     *)
(*                                                                         *)
(* Numbers are fixed-point integers counting tenths (1.0 is 10, 0.5 is 5). *)
(* The inputs are multiples of 0.5, so that every quantity the program     *)
(* computes (min - 1, max + 1, ymin + i * (ymax - ymin) / 5) is an exact   *)
(* number of tenths.                                                       *)
(***************************************************************************)
EXTENDS Integers, Sequences, FiniteSets

VARIABLES argc, file, pc, status, err, data, circles, view, fig, vlines,
          hlines, yticks, yticklabels, patches, lims, shown

vars == <<argc, file, pc, status, err, data, circles, view, fig, vlines,
          hlines, yticks, yticklabels, patches, lims, shown>>

\* Longest JSON array read from the file.
MaxLen == 2

-----------------------------------------------------------------------------
(* Values: what json.load produces, and Python's None.                     *)

\* n as a number of tenths.
Fix(n) == 10 * n

\* A JSON number (n tenths).
Num(n) == [t |-> "num", n |-> n, s |-> ""]
\* A JSON string.
Str(s) == [t |-> "str", n |-> 0, s |-> s]
\* JSON null, Python's None.
Null == [t |-> "null", n |-> 0, s |-> ""]
\* A JSON array held as the value of a key.
Arr == [t |-> "array", n |-> 0, s |-> ""]
\* No value: the key is not in the object.
Absent == [t |-> "absent", n |-> 0, s |-> ""]

Keys == {"fret", "x", "string", "y", "radius", "color"}

\* The JSON object holding the keys whose value is not Absent.
Dict(f, x, s, y, r, c) ==
    LET full == [k \in Keys |->
                    CASE k = "fret" -> f
                      [] k = "x" -> x
                      [] k = "string" -> s
                      [] k = "y" -> y
                      [] k = "radius" -> r
                      [] k = "color" -> c]
    IN  [isdict |-> TRUE,
         d |-> [k \in {q \in Keys : full[q] # Absent} |-> full[k]]]

\* An array element that is not an object (a number, say).
NonDict == [isdict |-> FALSE, d |-> [k \in {} |-> Absent]]

\* dict.get(k, default)
Get(c, k, default) == IF k \in DOMAIN c THEN c[k] ELSE default

\* All sequences over S of length at most n.
SeqsUpTo(S, n) == UNION {[1..m -> S] : m \in 0..n}

-----------------------------------------------------------------------------
(* load_data                                                               *)

STRING_MAP_swapped ==
    [s \in {"E", "A", "D", "G", "B", "e"} |->
        CASE s = "E" -> 5 [] s = "A" -> 1 [] s = "D" -> 2
          [] s = "G" -> 3 [] s = "B" -> 4 [] s = "e" -> 0]

STRING_MAP ==
    [s \in {"E", "A", "D", "G", "B", "e"} |->
        CASE s = "E" -> 0 [] s = "A" -> 1 [] s = "D" -> 2
          [] s = "G" -> 3 [] s = "B" -> 4 [] s = "e" -> 5]

\* One iteration of load_data's loop on an object: the entry as it is left,
\* the item appended, and whether the iteration raised.
NormalizeEntry_inplace(entry) ==
    IF "string" \in DOMAIN entry.d /\ entry.d["string"].t = "str"
    THEN IF entry.d["string"].s \notin DOMAIN STRING_MAP
         THEN [ok |-> FALSE, entry |-> entry, item |-> entry.d]
         ELSE LET item == [entry.d EXCEPT
                             !["string"] = Num(Fix(STRING_MAP[entry.d["string"].s]))]
              IN  [ok |-> TRUE, entry |-> [entry EXCEPT !.d = item], item |-> item]
    ELSE [ok |-> TRUE, entry |-> entry, item |-> entry.d]

NormalizeEntry(entry) ==
    LET item == entry.d IN
    IF "string" \in DOMAIN item /\ item["string"].t = "str"
    THEN IF item["string"].s \notin DOMAIN STRING_MAP
         THEN [ok |-> FALSE, entry |-> entry, item |-> item]
         ELSE [ok |-> TRUE, entry |-> entry,
               item |-> [item EXCEPT
                           !["string"] = Num(Fix(STRING_MAP[item["string"].s]))]]
    ELSE [ok |-> TRUE, entry |-> entry, item |-> item]

\* load_data's loop from element i on: the list as it is left, and the
\* normalized list returned, or the error raised.
RECURSIVE LoadLoop_skip_bad(_, _, _)
LoadLoop_skip_bad(d, i, normalized) ==
    IF i > Len(d)
    THEN [ok |-> TRUE, err |-> "", data |-> d, ret |-> normalized]
    ELSE IF ~d[i].isdict \/ ~NormalizeEntry(d[i]).ok
    THEN LoadLoop_skip_bad(d, i + 1, normalized)
    ELSE LoadLoop_skip_bad(d, i + 1, Append(normalized, NormalizeEntry(d[i]).item))

RECURSIVE LoadLoop(_, _, _)
LoadLoop(d, i, normalized) ==
    IF i > Len(d)
    THEN [ok |-> TRUE, err |-> "", data |-> d, ret |-> normalized]
    ELSE IF ~d[i].isdict
    THEN LoadLoop(d, i + 1, normalized)
    ELSE LET r == NormalizeEntry(d[i])
             d2 == [d EXCEPT ![i] = r.entry]
         IN  IF ~r.ok
             THEN [ok |-> FALSE, err |-> "ValueError", data |-> d2, ret |-> << >>]
             ELSE LoadLoop(d2, i + 1, Append(normalized, r.item))

\* load_data(path) on the file f.
LoadData(f) ==
    IF f.kind = "malformed"
    THEN [ok |-> FALSE, err |-> "JSONDecodeError", data |-> << >>, ret |-> << >>]
    ELSE IF f.kind # "list"
    THEN [ok |-> FALSE, err |-> "ValueError", data |-> << >>, ret |-> << >>]
    ELSE LoadLoop(f.elems, 1, << >>)

-----------------------------------------------------------------------------
(* draw_grid                                                               *)

\* int(x) of a number of tenths: Python truncates toward zero.
PyInt_floor(x) == x \div 10

PyInt(x) == IF x >= 0 THEN x \div 10 ELSE -((-x) \div 10)

\* list(range(a, b, s)) for s > 0
PyRange(a, b, s) ==
    LET n == IF b > a THEN (b - a + s - 1) \div s ELSE 0
    IN  [i \in 1..n |-> a + (i - 1) * s]

\* The x of each axvline call, in call order.
VLines(xmin, xmax, spacing) ==
    LET r == PyRange(PyInt(xmin), PyInt(xmax) + 1, spacing)
    IN  [i \in 1..Len(r) |-> Fix(r[i])]

labels == <<"E", "A", "D", "G", "B", "e">>

\* The positions list. span / 5 is exact: span is a whole number of halves.
Positions_six_steps(ymin, ymax) ==
    IF ymax > ymin
    THEN LET span == ymax - ymin
             step == span \div Len(labels)
         IN  [i \in 1..Len(labels) |-> ymin + (i - 1) * step]
    ELSE [i \in 1..Len(labels) |-> Fix(i - 1)]

Positions(ymin, ymax) ==
    IF ymax > ymin
    THEN LET span == ymax - ymin
             step == span \div (Len(labels) - 1)
         IN  [i \in 1..Len(labels) |-> ymin + (i - 1) * step]
    ELSE [i \in 1..Len(labels) |-> Fix(i - 1)]

\* draw_grid(ax, xmin, xmax, ymin, ymax, spacing): the calls made on ax.
DrawGrid(xmin, xmax, ymin, ymax, spacing) ==
    LET positions == Positions(ymin, ymax)
    IN  [vlines |-> VLines(xmin, xmax, spacing),
         hlines |-> positions,
         yticks |-> positions,
         yticklabels |-> labels]

-----------------------------------------------------------------------------
(* plot_circles                                                            *)

\* radius 0.5 and alpha 0.5, in tenths
DefaultRadius == 5
Alpha == 5

\* The centre of the circle of circ: x, y as plot_circles looks them up.
CircleX_legacy_first(circ) == Get(circ, "x", Get(circ, "fret", Null))

CircleX(circ) == Get(circ, "fret", Get(circ, "x", Null))
CircleY(circ) == Get(circ, "string", Get(circ, "y", Null))

\* The patch plot_circles adds for circ.
Circle(circ) ==
    [x |-> CircleX(circ), y |-> CircleY(circ),
     r |-> Get(circ, "radius", Num(DefaultRadius)),
     color |-> Get(circ, "color", Str("blue")), alpha |-> Alpha]

\* plot_circles(ax, circles) from circle i on: the patches added to ax.
RECURSIVE PlotLoop(_, _, _)
PlotLoop(cs, i, added) ==
    IF i > Len(cs)
    THEN added
    ELSE IF CircleX(cs[i]) = Null \/ CircleY(cs[i]) = Null
    THEN PlotLoop(cs, i + 1, added)
    ELSE PlotLoop(cs, i + 1, Append(added, Circle(cs[i])))

PlotCircles(cs) == PlotLoop(cs, 1, << >>)

-----------------------------------------------------------------------------
(* main: the bounds                                                        *)

HasX(c) == "fret" \in DOMAIN c \/ "x" \in DOMAIN c
HasY(c) == "string" \in DOMAIN c \/ "y" \in DOMAIN c

Xs_drawn_only(cs) ==
    LET sel == SelectSeq(cs, LAMBDA c : HasX(c) /\ HasY(c))
    IN  [i \in 1..Len(sel) |-> Get(sel[i], "fret", Get(sel[i], "x", Num(0)))]

Xs(cs) ==
    LET sel == SelectSeq(cs, HasX)
    IN  [i \in 1..Len(sel) |-> Get(sel[i], "fret", Get(sel[i], "x", Num(0)))]

Ys(cs) ==
    LET sel == SelectSeq(cs, HasY)
    IN  [i \in 1..Len(sel) |-> Get(sel[i], "string", Get(sel[i], "y", Num(0)))]

AllNum(vs) == \A i \in 1..Len(vs) : vs[i].t = "num"

\* min(vs) and max(vs) of a non-empty list of numbers
PyMin(vs) == CHOOSE m \in {vs[i].n : i \in 1..Len(vs)} :
                \A i \in 1..Len(vs) : m <= vs[i].n
PyMax(vs) == CHOOSE m \in {vs[i].n : i \in 1..Len(vs)} :
                \A i \in 1..Len(vs) : m >= vs[i].n

\* (lo, hi) of one axis: min - 1 and max + 1, or the default 0, 10.
AxisBounds_no_margin(vs) ==
    IF Len(vs) > 0
    THEN <<PyMin(vs), PyMax(vs)>>
    ELSE <<Fix(0), Fix(10)>>

AxisBounds(vs) ==
    IF Len(vs) > 0
    THEN <<PyMin(vs) - Fix(1), PyMax(vs) + Fix(1)>>
    ELSE <<Fix(0), Fix(10)>>

NoView == [set |-> FALSE, xmin |-> 0, xmax |-> 0, ymin |-> 0, ymax |-> 0,
           spacing |-> 1]
NoLims == [set |-> FALSE, xlo |-> 0, xhi |-> 0, ylo |-> 0, yhi |-> 0]

-----------------------------------------------------------------------------
(* The files read                                                          *)

\* The array elements over the given values of each key, and a non-object.
Entries(F, X, S, Y, R, C) ==
    {Dict(f, x, s, y, r, c) : f \in F, x \in X, s \in S, y \in Y, r \in R, c \in C}
        \cup {NonDict}

NoFile == [exists |-> FALSE, kind |-> "none", elems |-> << >>]

\* No file, a file that is not JSON, a JSON object, and the arrays over U.
Files(U) ==
    {NoFile,
     [exists |-> TRUE, kind |-> "malformed", elems |-> << >>],
     [exists |-> TRUE, kind |-> "object", elems |-> << >>]}
        \cup {[exists |-> TRUE, kind |-> "list", elems |-> e] : e \in SeqsUpTo(U, MaxLen)}

\* Runs of main: frets -2.0 and 0.5, a legacy x and y, named strings.
MainEntries ==
    Entries({Absent, Num(-20), Num(5)}, {Absent, Num(30)},
            {Absent, Null, Str("E"), Str("B"), Str("Z")}, {Absent, Num(40)},
            {Absent}, {Absent})

\* Calls of load_data: every kind of value of "string".
LoadEntries ==
    Entries({Absent, Num(10)}, {Absent},
            {Absent, Null, Arr, Num(25), Str("E"), Str("A"), Str("D"), Str("G"),
             Str("B"), Str("e"), Str("a"), Str("")},
            {Absent}, {Absent}, {Absent, Str("red")})

\* Calls of plot_circles on what load_data returns: every key.
PlotEntries ==
    Entries({Absent, Num(10)}, {Absent, Num(30)}, {Absent, Null, Str("G")},
            {Absent, Num(40)}, {Absent, Num(20)}, {Absent, Str("red")})

\* Calls of draw_grid: bounds from -2.0 to 2.0 by halves, spacing 1 or 2.
GridBounds == {-20, -15, -10, -5, 0, 5, 10, 15, 20}
GridArgs ==
    {[set |-> TRUE, xmin |-> a, xmax |-> b, ymin |-> c, ymax |-> d, spacing |-> sp] :
        a \in GridBounds, b \in GridBounds, c \in {-10, 0, 5}, d \in {-10, 0, 5, 15},
        sp \in {1, 2}}

-----------------------------------------------------------------------------
(* main                                                                    *)

Blank ==
    /\ status = -1 /\ err = "" /\ data = << >> /\ circles = << >>
    /\ fig = FALSE /\ vlines = << >> /\ hlines = << >> /\ yticks = << >>
    /\ yticklabels = << >> /\ patches = << >> /\ lims = NoLims /\ shown = FALSE

\* len(sys.argv) is argc; main is about to run.
Init ==
    /\ argc \in {1, 2, 3}
    /\ file \in Files(MainEntries)
    /\ pc = "start"
    /\ view = NoView
    /\ Blank

\* sys.exit(1), or an exception nothing catches: the interpreter exits with 1.
Exit(e) ==
    /\ pc' = "exit"
    /\ status' = 1
    /\ err' = e

\* if len(sys.argv) != 2
Main_CheckArgs ==
    /\ pc = "start"
    /\ IF argc # 2 THEN Exit("SystemExit") ELSE pc' = "path" /\ UNCHANGED <<status, err>>
    /\ UNCHANGED <<argc, file, data, circles, view, fig, vlines, hlines, yticks,
                   yticklabels, patches, lims, shown>>

\* if not path.exists()
Main_CheckPath ==
    /\ pc = "path"
    /\ IF ~file.exists THEN Exit("SystemExit") ELSE pc' = "load" /\ UNCHANGED <<status, err>>
    /\ UNCHANGED <<argc, file, data, circles, view, fig, vlines, hlines, yticks,
                   yticklabels, patches, lims, shown>>

\* circles = load_data(path)
Main_LoadData ==
    /\ pc = "load"
    /\ LET r == LoadData(file) IN
         /\ data' = r.data
         /\ IF r.ok
            THEN circles' = r.ret /\ pc' = "bounds" /\ UNCHANGED <<status, err>>
            ELSE circles' = circles /\ Exit(r.err)
    /\ UNCHANGED <<argc, file, view, fig, vlines, hlines, yticks, yticklabels,
                   patches, lims, shown>>

\* The bounds: min and max raise TypeError on a value that is no number.
Main_Bounds ==
    /\ pc = "bounds"
    /\ LET xs == Xs(circles)
           ys == Ys(circles)
       IN  IF AllNum(xs) /\ AllNum(ys)
           THEN /\ view' = [set |-> TRUE,
                            xmin |-> AxisBounds(xs)[1], xmax |-> AxisBounds(xs)[2],
                            ymin |-> AxisBounds(ys)[1], ymax |-> AxisBounds(ys)[2],
                            spacing |-> 1]
                /\ pc' = "subplots"
                /\ UNCHANGED <<status, err>>
           ELSE view' = view /\ Exit("TypeError")
    /\ UNCHANGED <<argc, file, data, circles, fig, vlines, hlines, yticks,
                   yticklabels, patches, lims, shown>>

\* fig, ax = plt.subplots()
Main_Subplots ==
    /\ pc = "subplots"
    /\ fig' = TRUE
    /\ pc' = "grid"
    /\ UNCHANGED <<argc, file, status, err, data, circles, view, vlines, hlines,
                   yticks, yticklabels, patches, lims, shown>>

\* The calls a draw_grid with the arguments in view makes on ax.
Grid ==
    LET g == DrawGrid(view.xmin, view.xmax, view.ymin, view.ymax, view.spacing) IN
    /\ vlines' = vlines \o g.vlines
    /\ hlines' = hlines \o g.hlines
    /\ yticks' = g.yticks
    /\ yticklabels' = g.yticklabels

\* draw_grid(ax, xmin, xmax, ymin, ymax)
Main_DrawGrid ==
    /\ pc = "grid"
    /\ Grid
    /\ pc' = "plot"
    /\ UNCHANGED <<argc, file, status, err, data, circles, view, fig, patches,
                   lims, shown>>

\* plot_circles(ax, circles)
Main_PlotCircles ==
    /\ pc = "plot"
    /\ patches' = patches \o PlotCircles(circles)
    /\ pc' = "limits"
    /\ UNCHANGED <<argc, file, status, err, data, circles, view, fig, vlines,
                   hlines, yticks, yticklabels, lims, shown>>

\* ax.set_xlim, ax.set_ylim (and the aspect, the labels, the title)
Main_SetLimits ==
    /\ pc = "limits"
    /\ lims' = [set |-> TRUE, xlo |-> view.xmin, xhi |-> view.xmax,
                ylo |-> view.ymin, yhi |-> view.ymax]
    /\ pc' = "show"
    /\ UNCHANGED <<argc, file, status, err, data, circles, view, fig, vlines,
                   hlines, yticks, yticklabels, patches, shown>>

\* plt.show(), and main returns
Main_Show ==
    /\ pc = "show"
    /\ shown' = TRUE
    /\ status' = 0
    /\ pc' = "done"
    /\ UNCHANGED <<argc, file, err, data, circles, view, fig, vlines, hlines,
                   yticks, yticklabels, patches, lims>>

Next ==
    \/ Main_CheckArgs
    \/ Main_CheckPath
    \/ Main_LoadData
    \/ Main_Bounds
    \/ Main_Subplots
    \/ Main_DrawGrid
    \/ Main_PlotCircles
    \/ Main_SetLimits
    \/ Main_Show

Spec == Init /\ [][Next]_vars

-----------------------------------------------------------------------------
(* Calls of the functions on their own                                     *)

\* load_data(path) called on an existing file
Call_load_data ==
    /\ pc = "call_load"
    /\ LET r == LoadData(file) IN
         /\ data' = r.data
         /\ circles' = r.ret
         /\ err' = r.err
         /\ pc' = IF r.ok THEN "loaded" ELSE "raised"
    /\ UNCHANGED <<argc, file, status, view, fig, vlines, hlines, yticks,
                   yticklabels, patches, lims, shown>>

\* plot_circles(ax, circles) called on what load_data returned
Call_plot_circles ==
    /\ pc = "loaded"
    /\ patches' = patches \o PlotCircles(circles)
    /\ pc' = "plotted"
    /\ UNCHANGED <<argc, file, status, err, data, circles, view, fig, vlines,
                   hlines, yticks, yticklabels, lims, shown>>

\* draw_grid(ax, xmin, xmax, ymin, ymax, spacing) called with the arguments in view
Call_draw_grid ==
    /\ pc = "call_grid"
    /\ Grid
    /\ pc' = "drawn"
    /\ UNCHANGED <<argc, file, status, err, data, circles, view, fig, patches,
                   lims, shown>>

InitLoad ==
    /\ argc = 2
    /\ file \in Files(LoadEntries) \ {NoFile}
    /\ pc = "call_load"
    /\ view = NoView
    /\ Blank

NextLoad == Call_load_data

SpecLoad == InitLoad /\ [][NextLoad]_vars

InitPlot ==
    /\ argc = 2
    /\ file \in Files(PlotEntries) \ {NoFile}
    /\ pc = "call_load"
    /\ view = NoView
    /\ Blank

NextPlot ==
    \/ Call_load_data
    \/ Call_plot_circles

SpecPlot == InitPlot /\ [][NextPlot]_vars

InitGrid ==
    /\ argc = 2
    /\ file = NoFile
    /\ pc = "call_grid"
    /\ view \in GridArgs
    /\ Blank

NextGrid == Call_draw_grid

SpecGrid == InitGrid /\ [][NextGrid]_vars

-----------------------------------------------------------------------------
(* What the claims read from the input                                     *)

IsDict(e) == e.isdict

\* The objects of the array in the file, in order.
Objects == SelectSeq(file.elems, IsDict)

\* The number of a string's name, as the specification lists them.
SlotOf(s) ==
    CASE s = "E" -> 0 [] s = "A" -> 1 [] s = "D" -> 2
      [] s = "G" -> 3 [] s = "B" -> 4 [] s = "e" -> 5

\* A value of "string" as it is after normalization.
Normalized(v) == IF v.t = "str" THEN Num(10 * SlotOf(v.s)) ELSE v

\* Some object of the array names a string that is none of the six.
BadSymbol ==
    \E i \in 1..Len(file.elems) :
        /\ file.elems[i].isdict
        /\ "string" \in DOMAIN file.elems[i].d
        /\ file.elems[i].d["string"].t = "str"
        /\ file.elems[i].d["string"].s \notin {"E", "A", "D", "G", "B", "e"}

\* The horizontal and the vertical value of an object: the new key, else the
\* legacy one, else none.
Horizontal(d) ==
    IF "fret" \in DOMAIN d THEN d["fret"]
    ELSE IF "x" \in DOMAIN d THEN d["x"] ELSE Null
Vertical(d) ==
    IF "string" \in DOMAIN d THEN Normalized(d["string"])
    ELSE IF "y" \in DOMAIN d THEN d["y"] ELSE Null

\* A patch without its alpha.
Marker(p) == [x |-> p.x, y |-> p.y, r |-> p.r, color |-> p.color]

Markers == [i \in 1..Len(patches) |-> Marker(patches[i])]

\* The marker of an object with the two values: its radius or 0.5, its colour
\* or blue.
MarkerOf(d, h, v) ==
    [x |-> h, y |-> v,
     r |-> IF "radius" \in DOMAIN d THEN d["radius"] ELSE Num(5),
     color |-> IF "color" \in DOMAIN d THEN d["color"] ELSE Str("blue")]

-----------------------------------------------------------------------------
(* C1 *)

\* C1 as stated: plot_circles on the output of load_data draws exactly one
\* circle per input object that contains both "fret" and "string", in input
\* order, centred at (fret, normalized string), and none for any other element.
C1_FretAndStringOnly ==
    pc = "plotted" =>
        LET both == SelectSeq(Objects, LAMBDA e :
                        "fret" \in DOMAIN e.d /\ "string" \in DOMAIN e.d)
        IN  Markers = [i \in 1..Len(both) |->
                          MarkerOf(both[i].d, both[i].d["fret"],
                                   Normalized(both[i].d["string"]))]

\* C1 amended: plot_circles on the output of load_data draws exactly one circle
\* per input object whose horizontal value (fret, else legacy x) and vertical
\* value (string, else legacy y) are both present and not null, in input order,
\* centred at those two values (the string normalized), with the record's
\* radius or 0.5 and colour or blue, and none for any other element.
C1_OneCirclePerPlacedObject ==
    pc = "plotted" =>
        LET placed == SelectSeq(Objects, LAMBDA e :
                          Horizontal(e.d) # Null /\ Vertical(e.d) # Null)
        IN  Markers = [i \in 1..Len(placed) |->
                          MarkerOf(placed[i].d, Horizontal(placed[i].d),
                                   Vertical(placed[i].d))]

\* Two objects were loaded: the first, with legacy keys only, is drawn, the
\* second, whose string is null, is not.
C1_Witness ==
    /\ pc = "plotted"
    /\ Len(file.elems) = 2
    /\ file.elems[1] = Dict(Absent, Num(30), Absent, Num(40), Absent, Str("red"))
    /\ file.elems[2] = Dict(Num(10), Absent, Null, Absent, Absent, Absent)
    /\ Len(patches) = 1

-----------------------------------------------------------------------------
(* C2 *)

\* C2: load_data turns every string-valued "string" into 0..5 for E, A, D, G,
\* B, e, and any other string value, wherever it is in the array, makes the
\* whole load raise and return no record.
C2_SymbolTable ==
    (pc \in {"loaded", "raised"} /\ file.kind = "list") =>
        IF BadSymbol
        THEN pc = "raised" /\ err = "ValueError" /\ circles = << >>
        ELSE /\ pc = "loaded"
             /\ Len(circles) = Len(Objects)
             /\ \A j \in 1..Len(Objects) :
                    ("string" \in DOMAIN Objects[j].d
                        /\ Objects[j].d["string"].t = "str") =>
                    /\ "string" \in DOMAIN circles[j]
                    /\ circles[j]["string"] = Num(10 * SlotOf(Objects[j].d["string"].s))

\* A valid named string is followed by a case variant: the load raised.
C2_Witness ==
    /\ pc = "raised"
    /\ Len(file.elems) = 2
    /\ file.elems[1] = Dict(Num(10), Absent, Str("e"), Absent, Absent, Absent)
    /\ file.elems[2] = Dict(Num(10), Absent, Str("a"), Absent, Absent, Absent)
    /\ circles = << >>

-----------------------------------------------------------------------------
(* C3 *)

\* C3: in every run of main the gridline and tick labelled s is at the
\* vertical position at which a marker whose string is s is drawn.
C3_LabelsAligned ==
    pc = "done" =>
        \A i \in 1..Len(yticks) :
            /\ yticks[i] = 10 * SlotOf(yticklabels[i])
            /\ hlines[i] = 10 * SlotOf(yticklabels[i])

-----------------------------------------------------------------------------
(* C4 *)

FatalInput ==
    \/ argc # 2
    \/ ~file.exists
    \/ file.kind = "object"
    \/ BadSymbol

\* C4: when the argument count is wrong, the file is missing, the top level is
\* no array or a symbol is unrecognized, the run never gets past loading, ends
\* with status 1, and no figure, gridline or circle is ever made.
C4_FatalBeforeDrawing ==
    FatalInput =>
        /\ pc \in {"start", "path", "load", "exit"}
        /\ pc = "exit" => status = 1
        /\ ~fig /\ ~shown
        /\ vlines = << >> /\ hlines = << >> /\ yticks = << >> /\ patches = << >>
        /\ ~lims.set

\* A run ended on an unrecognized symbol that follows a valid object.
C4_Witness ==
    /\ pc = "exit"
    /\ err = "ValueError"
    /\ Len(file.elems) = 2
    /\ file.elems[1] = Dict(Num(5), Absent, Str("E"), Absent, Absent, Absent)
    /\ file.elems[2] = Dict(Num(5), Absent, Str("Z"), Absent, Absent, Absent)

-----------------------------------------------------------------------------
(* C5 *)

\* C5: every record load_data returns that has a "string" holds a number in it.
C5_StringIsNumeric ==
    pc = "loaded" =>
        \A j \in 1..Len(circles) :
            "string" \in DOMAIN circles[j] => circles[j]["string"].t = "num"

-----------------------------------------------------------------------------
(* C6 *)

\* C6: when load_data succeeds it returns the objects of the input in their
\* order, each equal to its input on every key but for a named string replaced
\* by its number, and leaves the input as it was.
C6_ObjectsInOrder ==
    pc = "loaded" =>
        /\ Len(circles) = Len(Objects)
        /\ \A j \in 1..Len(Objects) :
              /\ DOMAIN circles[j] = DOMAIN Objects[j].d
              /\ \A k \in DOMAIN Objects[j].d :
                    circles[j][k] = IF k = "string"
                                    THEN Normalized(Objects[j].d[k])
                                    ELSE Objects[j].d[k]
        /\ data = file.elems

\* A non-object was skipped and the object after it, naming a string, returned.
C6_Witness ==
    /\ pc = "loaded"
    /\ Len(file.elems) = 2
    /\ file.elems[1] = NonDict
    /\ file.elems[2] = Dict(Num(10), Absent, Str("B"), Absent, Absent, Str("red"))
    /\ Len(circles) = 1

-----------------------------------------------------------------------------
(* C7 *)

\* The horizontal positions of the objects that have one.
HorizontalSet ==
    {Horizontal(Objects[j].d).n :
        j \in {i \in 1..Len(Objects) : Horizontal(Objects[i].d) # Null}}

NoCoordinates ==
    \A j \in 1..Len(Objects) : DOMAIN Objects[j].d \cap {"fret", "x", "string", "y"} = {}

\* C7: the horizontal viewport is (min - 1, max + 1) over the horizontal
\* positions of all records that have one, drawn or not, and (0, 10) when none
\* has; and the bounds of an array with no coordinate at all raise nothing.
C7_HorizontalViewport ==
    /\ view.set =>
          IF HorizontalSet = {}
          THEN view.xmin = 0 /\ view.xmax = 100
          ELSE /\ view.xmin + 10 \in HorizontalSet
               /\ view.xmax - 10 \in HorizontalSet
               /\ \A h \in HorizontalSet : view.xmin + 10 <= h /\ h <= view.xmax - 10
    /\ (file.kind = "list" /\ NoCoordinates) => err # "TypeError"
    /\ (file.kind = "list" /\ NoCoordinates /\ view.set) =>
          view.xmin = 0 /\ view.xmax = 100

\* The bounds were computed from a record that has a fret and no vertical
\* position, beside one that is drawn.
C7_Witness ==
    /\ view.set
    /\ Len(file.elems) = 2
    /\ file.elems[1] = Dict(Num(-20), Absent, Absent, Absent, Absent, Absent)
    /\ file.elems[2] = Dict(Num(5), Absent, Str("B"), Absent, Absent, Absent)
    /\ view.xmin = -30
    /\ view.xmax = 15

-----------------------------------------------------------------------------
(* C8 *)

Floor(x) == x \div 10
\* x rounded toward zero
Truncated(x) == IF x >= 0 THEN x \div 10 ELSE -((-x) \div 10)

\* Exactly one line at each integer lo..hi and no other.
OneLineEach(lo, hi) ==
    /\ Len(vlines) = hi - lo + 1
    /\ \A k \in lo..hi : \E i \in 1..Len(vlines) : vlines[i] = 10 * k
    /\ \A i \in 1..Len(vlines) : \E k \in lo..hi : vlines[i] = 10 * k

\* C8 as stated: with spacing 1 and xmin <= xmax, draw_grid draws exactly one
\* vertical line at each integer from floor(xmin) to floor(xmax) and no other.
C8_FloorToFloor ==
    (pc = "drawn" /\ view.spacing = 1 /\ view.xmin <= view.xmax) =>
        OneLineEach(Floor(view.xmin), Floor(view.xmax))

\* C8 amended: with spacing 1 and xmin <= xmax, draw_grid draws exactly one
\* vertical line at each integer from xmin rounded toward zero to xmax rounded
\* toward zero and no other (the floors, for bounds that are not negative).
C8_TruncatedToTruncated ==
    (pc = "drawn" /\ view.spacing = 1 /\ view.xmin <= view.xmax) =>
        /\ OneLineEach(Truncated(view.xmin), Truncated(view.xmax))
        /\ view.xmin >= 0 => OneLineEach(Floor(view.xmin), Floor(view.xmax))

\* draw_grid was called with xmin = -0.5 and xmax = 1.5: lines at 0 and 1.
C8_Witness ==
    /\ pc = "drawn"
    /\ view.spacing = 1
    /\ view.xmin = -5
    /\ view.xmax = 15
    /\ vlines = <<0, 10>>

-----------------------------------------------------------------------------
(* C9 *)

\* C9: every call of draw_grid draws six horizontal lines at strictly
\* increasing positions, the ticks there labelled E, A, D, G, B, e from the
\* lowest up; from ymin to ymax when ymax > ymin, at 0..5 otherwise.
C9_SixLabelledLines ==
    pc = "drawn" =>
        /\ Len(hlines) = 6
        /\ \A i \in 1..5 : hlines[i] < hlines[i + 1]
        /\ yticks = hlines
        /\ yticklabels = <<"E", "A", "D", "G", "B", "e">>
        /\ IF view.ymax > view.ymin
           THEN hlines[1] = view.ymin /\ hlines[6] = view.ymax
           ELSE hlines = <<0, 10, 20, 30, 40, 50>>

\* draw_grid was called with ymin = -1.0 and ymax = 1.5: lines half a unit apart.
C9_Witness ==
    /\ pc = "drawn"
    /\ view.ymin = -10
    /\ view.ymax = 15
    /\ hlines = <<-10, -5, 0, 5, 10, 15>>

-----------------------------------------------------------------------------
(* C10 *)

\* C10: in a run of main that reaches drawing the viewport is not degenerate,
\* so draw_grid's fallback is not taken, and the centre of every circle drawn
\* is strictly inside the axis limits.
C10_CentresInsideViewport ==
    /\ fig => view.set /\ view.xmin < view.xmax /\ view.ymin < view.ymax
    /\ pc \in {"plot", "limits", "show", "done"} =>
          hlines[1] = view.ymin /\ hlines[6] = view.ymax
    /\ lims.set =>
          /\ lims.xlo < lims.xhi
          /\ lims.ylo < lims.yhi
          /\ \A i \in 1..Len(patches) :
                /\ patches[i].x.t = "num"
                /\ patches[i].y.t = "num"
                /\ lims.xlo < patches[i].x.n /\ patches[i].x.n < lims.xhi
                /\ lims.ylo < patches[i].y.n /\ patches[i].y.n < lims.yhi

\* The limits were set around two circles, one placed by new keys that shadow
\* a legacy x, one by legacy keys.
C10_Witness ==
    /\ lims.set
    /\ Len(file.elems) = 2
    /\ file.elems[1] = Dict(Num(5), Num(30), Str("B"), Absent, Absent, Absent)
    /\ file.elems[2] = Dict(Absent, Num(30), Absent, Num(40), Absent, Absent)
    /\ Len(patches) = 2
    /\ lims.xlo = -5 /\ lims.xhi = 40

====
